---- MODULE Spec2Model ----
\* Model of trendradar/ai_hotspots.py: the daily "new hotspots" export.
\*
\* Python str values are sequences of code points, so that strip(), lower(),
\* split() and the lexicographic comparison of sort keys are computed, not
\* postulated: "a" is <<97>>, "A " is <<65, 32>>, "x?u" is <<120, 63, 117>>.
EXTENDS Integers, Sequences, FiniteSets, TLC

VARIABLES
    today_data,        \* NewsData passed as today_data
    yesterday_data,    \* Optional[NewsData]: <<>> is None, <<d>> is d
    id_to_name_arg,    \* the id_to_name argument of a direct _flatten_news call
    max_items,         \* max_items of the last build_daily_unique_hotspots call
    pc,                \* which call has returned
    flat,              \* list returned by a direct _flatten_news call
    candidates,        \* unique_candidates as of line 100 (before truncation)
    lines,             \* lines returned by build_daily_unique_hotspots
    total_candidates,  \* total_candidates returned with them
    first_lines,       \* lines returned by the previous call (re-run only)
    first_total,       \* total_candidates returned by the previous call
    date_str,          \* date_str argument of the path/key builders
    prefix,            \* prefix argument of build_r2_key
    raised,            \* the last path/key builder call raised ValueError
    result,            \* str returned by the last path/key builder call
    fs                 \* files written by write_ai_hotspots_file: path -> content

vars == <<today_data, yesterday_data, id_to_name_arg, max_items, pc, flat,
          candidates, lines, total_candidates, first_lines, first_total,
          date_str, prefix, raised, result, fs>>

-----------------------------------------------------------------------------
\* Bounds of the model.

\* most items in today's snapshot, all platforms together
MaxToday == 2
\* most items in yesterday's snapshot, all platforms together
MaxYesterday == 1
\* largest max_items passed (the smallest is -1)
MaxK == 1
\* longest date_str passed to the path/key builders
MaxDateLen == 5

-----------------------------------------------------------------------------
\* Python str and list primitives.

Min(a, b) == IF a < b THEN a ELSE b

\* s[:n] for n >= 0
Take(s, n) == SubSeq(s, 1, Min(n, Len(s)))

\* s[n:] for n >= 0
Drop(s, n) == SubSeq(s, n + 1, Len(s))

\* s[:n] for any integer n (a negative n counts from the end)
PySlicePrefix(s, n) ==
    IF n >= 0 THEN Take(s, n)
    ELSE IF Len(s) + n > 0 THEN Take(s, Len(s) + n) ELSE <<>>

\* str.__lt__: lexicographic by code point
RECURSIVE StrLess(_, _)
StrLess(s, t) ==
    IF t = <<>> THEN FALSE
    ELSE IF s = <<>> THEN TRUE
    ELSE IF Head(s) # Head(t) THEN Head(s) < Head(t)
    ELSE StrLess(Tail(s), Tail(t))

Whitespace == {9, 10, 13, 32}

RECURSIVE LStrip(_)
LStrip(s) ==
    IF s # <<>> /\ Head(s) \in Whitespace THEN LStrip(Tail(s)) ELSE s

RECURSIVE RStrip(_)
RStrip(s) ==
    IF s # <<>> /\ s[Len(s)] \in Whitespace THEN RStrip(Take(s, Len(s) - 1)) ELSE s

\* str.strip()
Strip(s) == LStrip(RStrip(s))

\* str.lower() on ASCII
Lower(s) == [i \in 1..Len(s) |-> IF s[i] \in 65..90 THEN s[i] + 32 ELSE s[i]]

\* index of the first occurrence of code point c in s, 0 when there is none
RECURSIVE IndexOf(_, _, _)
IndexOf(s, c, i) ==
    IF i > Len(s) THEN 0
    ELSE IF s[i] = c THEN i
    ELSE IndexOf(s, c, i + 1)

\* str.split(sep, maxsplit) for a one-character sep and maxsplit >= 0
RECURSIVE Split(_, _, _)
Split(s, sep, maxsplit) ==
    LET i == IndexOf(s, sep, 1) IN
    IF maxsplit = 0 \/ i = 0 THEN <<s>>
    ELSE <<Take(s, i - 1)>> \o Split(Drop(s, i), sep, maxsplit - 1)

\* sep.join(parts)
RECURSIVE Join(_, _)
Join(parts, sep) ==
    IF parts = <<>> THEN <<>>
    ELSE IF Len(parts) = 1 THEN parts[1]
    ELSE parts[1] \o sep \o Join(Tail(parts), sep)

\* [p for p in parts if p]
RECURSIVE NonEmptyParts(_)
NonEmptyParts(parts) ==
    IF parts = <<>> THEN <<>>
    ELSE IF Head(parts) = <<>> THEN NonEmptyParts(Tail(parts))
    ELSE <<Head(parts)>> \o NonEmptyParts(Tail(parts))

\* all sequences over S of length at most n
RECURSIVE SeqsUpTo(_, _)
SeqsUpTo(S, n) ==
    IF n <= 0 THEN {<<>>}
    ELSE LET shorter == SeqsUpTo(S, n - 1) IN
         shorter \cup {Append(s, x) : s \in {t \in shorter : Len(t) = n - 1}, x \in S}

-----------------------------------------------------------------------------
\* Collaborators imported by the module (trendradar.report.helpers,
\* trendradar.utils.url); their code is not part of ai_hotspots.py.

\* collapse every run of whitespace into one space
RECURSIVE CollapseSpaces(_)
CollapseSpaces(s) ==
    IF s = <<>> THEN <<>>
    ELSE IF Head(s) \in Whitespace
         THEN <<32>> \o CollapseSpaces(LStrip(s))
         ELSE <<Head(s)>> \o CollapseSpaces(Tail(s))

\* clean_title(title): whitespace noise collapsed, ends trimmed
clean_title(title) == Strip(CollapseSpaces(title))

\* s without trailing "/"
RECURSIVE DropTrailingSlash(_)
DropTrailingSlash(s) ==
    IF s # <<>> /\ s[Len(s)] = 47 THEN DropTrailingSlash(Take(s, Len(s) - 1)) ELSE s

\* normalize_url(url, platform_id): the query string (tracking parameters)
\* and a trailing slash are dropped; platform_id is a hint only
normalize_url(url, platform_id) ==
    LET q == IndexOf(url, 63, 1) IN
    DropTrailingSlash(IF q = 0 THEN url ELSE Take(url, q - 1))

-----------------------------------------------------------------------------
\* _item_identity

\* "url:"
UrlTag == <<117, 114, 108, 58>>
\* "title:"
TitleTag == <<116, 105, 116, 108, 101, 58>>

\* variant of _item_identity: the URL is not normalized
ItemIdentityRawUrl(item) ==
    LET url == Strip(item.url) IN
    IF url # <<>>
    THEN UrlTag \o url
    ELSE TitleTag \o Lower(clean_title(item.title))

_item_identity(item) ==
    LET url == Strip(item.url) IN
    IF url # <<>>
    THEN UrlTag \o normalize_url(url, item.source_id)
    ELSE TitleTag \o Lower(clean_title(item.title))

-----------------------------------------------------------------------------
\* _flatten_news

\* the sentinel of `x.rank or 999`
UNRANKED == 999

\* d.get(k) or default
GetOr(d, k, default) ==
    IF k \in DOMAIN d /\ d[k] # <<>> THEN d[k] ELSE default

\* variant of ResolveName: no fallback to the raw source_id
ResolveNameNoFallback(data, id_to_name, source_id) ==
    GetOr(id_to_name, source_id, GetOr(data.id_to_name, source_id, <<>>))

\* line 59: the display name of one platform
ResolveName(data, id_to_name, source_id) ==
    GetOr(id_to_name, source_id, GetOr(data.id_to_name, source_id, source_id))

\* variant of WriteName: `+=` for `=`
WriteNameAppend(it, source_name) ==
    [it EXCEPT !.source_name = it.source_name \o source_name]

\* variant of WriteName: the sort sentinel is written onto the item as well
WriteNameAndRank(it, source_name) ==
    [it EXCEPT !.source_name = source_name,
               !.rank = IF it.rank # 0 THEN it.rank ELSE UNRANKED]

\* line 62: the item after `it.source_name = source_name`
WriteName(it, source_name) == [it EXCEPT !.source_name = source_name]


\* data after the loop of lines 58-63: every item carries its platform's name
FillNames(data, id_to_name) ==
    [data EXCEPT !.items =
        [e \in 1..Len(data.items) |->
            [data.items[e] EXCEPT !.news_list =
                [i \in 1..Len(data.items[e].news_list) |->
                    WriteName(data.items[e].news_list[i],
                              ResolveName(data, id_to_name, data.items[e].source_id))]]]]

\* the items of a snapshot in dict order, platform after platform
RECURSIVE Concat(_)
Concat(entries) ==
    IF entries = <<>> THEN <<>>
    ELSE Head(entries).news_list \o Concat(Tail(entries))

\* line 65: the sort key
SortKey(x) == <<IF x.rank # 0 THEN x.rank ELSE UNRANKED, x.source_id, clean_title(x.title)>>

\* tuple comparison of two sort keys
KeyLess(k1, k2) ==
    IF k1[1] # k2[1] THEN k1[1] < k2[1]
    ELSE IF k1[2] # k2[2] THEN StrLess(k1[2], k2[2])
    ELSE StrLess(k1[3], k2[3])

\* x placed in sorted list s behind every element whose key is not larger
RECURSIVE InsertSorted(_, _)
InsertSorted(s, x) ==
    IF s = <<>> THEN <<x>>
    ELSE IF KeyLess(SortKey(x), SortKey(s[Len(s)]))
         THEN Append(InsertSorted(Take(s, Len(s) - 1), x), s[Len(s)])
         ELSE Append(s, x)

\* list.sort(key=...): stable
RECURSIVE SortItems(_)
SortItems(s) ==
    IF s = <<>> THEN <<>>
    ELSE InsertSorted(SortItems(Take(s, Len(s) - 1)), s[Len(s)])

\* _flatten_news(data, id_to_name): the returned list and the snapshot as the
\* call leaves it (the list holds the snapshot's own item objects)
_flatten_news(data, id_to_name) ==
    LET after == FillNames(data, id_to_name) IN
    [items |-> SortItems(Concat(after.items)), data |-> after]

-----------------------------------------------------------------------------
\* build_daily_unique_hotspots

\* lines 85-88
YesterdaySeen(flat_yesterday) ==
    {_item_identity(flat_yesterday[i]) : i \in 1..Len(flat_yesterday)}

\* variant of UniqueCandidates: today_seen is never consulted
RECURSIVE UniqueCandidatesNoTodaySeen(_, _, _)
UniqueCandidatesNoTodaySeen(today_items, yesterday_seen, today_seen) ==
    IF today_items = <<>> THEN <<>>
    ELSE IF _item_identity(Head(today_items)) \in yesterday_seen
         THEN UniqueCandidatesNoTodaySeen(Tail(today_items), yesterday_seen, today_seen)
         ELSE <<Head(today_items)>>
              \o UniqueCandidatesNoTodaySeen(Tail(today_items), yesterday_seen, today_seen)

\* lines 91-100: the walk over today's items
RECURSIVE UniqueCandidates(_, _, _)
UniqueCandidates(today_items, yesterday_seen, today_seen) ==
    IF today_items = <<>> THEN <<>>
    ELSE LET it == Head(today_items)
             identity == _item_identity(it) IN
         IF identity \in yesterday_seen
         THEN UniqueCandidates(Tail(today_items), yesterday_seen, today_seen)
         ELSE IF identity \in today_seen
         THEN UniqueCandidates(Tail(today_items), yesterday_seen, today_seen)
         ELSE <<it>> \o UniqueCandidates(Tail(today_items), yesterday_seen,
                                         today_seen \cup {identity})

\* variant of CountCandidates: counted after the truncation
CountCandidatesTruncated(unique, truncated) == Len(truncated)

\* line 102
CountCandidates(unique, truncated) == Len(unique)

\* variant of Truncate: the slice is taken whatever the sign of max_items
TruncateUnguarded(unique, k) == PySlicePrefix(unique, k)

\* lines 103-104
Truncate(unique, k) == IF k > 0 THEN PySlicePrefix(unique, k) ELSE unique

\* lines 109-117
MakeLine(idx, it) ==
    [idx |-> idx,
     platform_id |-> it.source_id,
     platform_name |-> IF it.source_name # <<>> THEN it.source_name ELSE it.source_id,
     title |-> clean_title(it.title),
     url |-> Strip(it.url),
     mobile_url |-> Strip(it.mobile_url),
     rank |-> it.rank]

\* variant of MakeLines: enumerate without start=1
MakeLinesFromZero(unique) == [i \in 1..Len(unique) |-> MakeLine(i - 1, unique[i])]

\* lines 106-118: enumerate(unique_candidates, start=1)
MakeLines(unique) == [i \in 1..Len(unique) |-> MakeLine(i, unique[i])]

\* the whole call: what it returns and what it leaves in its arguments
build_daily_unique_hotspots(today, yesterday, k) ==
    LET ft == _flatten_news(today, today.id_to_name)
        fy == IF yesterday = <<>> THEN <<>>
              ELSE <<_flatten_news(yesterday[1], yesterday[1].id_to_name)>>
        yesterday_seen == IF fy = <<>> THEN {} ELSE YesterdaySeen(fy[1].items)
        unique == UniqueCandidates(ft.items, yesterday_seen, {})
        truncated == Truncate(unique, k)
    IN [lines |-> MakeLines(truncated),
        total_candidates |-> CountCandidates(unique, truncated),
        unique |-> unique,
        today |-> ft.data,
        yesterday |-> IF fy = <<>> THEN <<>> ELSE <<fy[1].data>>]

-----------------------------------------------------------------------------
\* Inputs.

\* NewsItem as the storage layer hands it over: source_name not yet filled.
\* A story is a <<title, url>> pair.
NewsItems(source_id, stories, ranks) ==
    {[source_id |-> source_id, source_name |-> <<>>, title |-> st[1], url |-> st[2],
      mobile_url |-> <<32, 109>>, rank |-> r] :
        st \in stories, r \in ranks}

\* the NewsData.items dicts over the platforms `sources` (in dict order) with
\* at most n items in all
RECURSIVE ItemDicts(_, _, _, _)
ItemDicts(sources, stories, ranks, n) ==
    IF sources = <<>> THEN {<<>>}
    ELSE UNION {
        {<<[source_id |-> Head(sources), news_list |-> l]>> \o rest :
            rest \in ItemDicts(Tail(sources), stories, ranks, n - Len(l))} :
        l \in SeqsUpTo(NewsItems(Head(sources), stories, ranks), n)}

\* all dicts from some of the keys to the values
Dicts(keys, values) == UNION {[D -> values] : D \in SUBSET keys}

NoDict == [k \in {} |-> <<>>]

\* platform ids "a", "b"
Sources == <<<<97>>, <<98>>>>
\* today's stories: titles "a", "A ", "b" without URL; title "a" at the
\* URLs " x" and "x?u"
Stories ==
    {<<<<97>>, <<>>>>, <<<<65, 32>>, <<>>>>, <<<<98>>, <<>>>>,
     <<<<97>>, <<32, 120>>>>, <<<<97>>, <<120, 63, 117>>>>}
\* yesterday's stories: title "A " without URL; title "b" at the URL "x?u"
YesterdayStories == {<<<<65, 32>>, <<>>>>, <<<<98>>, <<120, 63, 117>>>>}
Ranks == {0, 1}
\* {"a": "N"}: platform "b" has no display name
Names == [k \in {<<97>>} |-> <<78>>]

TodaySnapshots ==
    {[items |-> d, id_to_name |-> Names] :
        d \in ItemDicts(Sources, Stories, Ranks, MaxToday)}

\* yesterday's snapshot holds platform "a" only
YesterdaySnapshots ==
    {[items |-> d, id_to_name |-> Names] :
        d \in ItemDicts(<<Sources[1]>>, YesterdayStories, {1}, MaxYesterday)}

MaxItemsRange == -1..MaxK

-----------------------------------------------------------------------------
\* The daily export: one build, then a re-run on the same snapshots.

NoCall ==
    /\ flat = <<>>
    /\ candidates = <<>>
    /\ lines = <<>>
    /\ total_candidates = 0
    /\ first_lines = <<>>
    /\ first_total = 0
    /\ max_items = 0
    /\ raised = FALSE
    /\ result = <<>>
    /\ fs = NoDict

Init ==
    /\ pc = "start"
    /\ today_data \in TodaySnapshots
    /\ yesterday_data \in {<<>>} \cup {<<y>> : y \in YesterdaySnapshots}
    /\ id_to_name_arg = NoDict
    /\ date_str = <<>>
    /\ prefix = <<>>
    /\ NoCall

\* one call with max_items = k; r is what the call returns and leaves behind
Build(k) ==
    /\ pc = "start"
    /\ \E r \in {build_daily_unique_hotspots(today_data, yesterday_data, k)} :
        /\ lines' = r.lines
        /\ total_candidates' = r.total_candidates
        /\ candidates' = r.unique
        /\ today_data' = r.today
        /\ yesterday_data' = r.yesterday
    /\ max_items' = k
    /\ pc' = "built"
    /\ UNCHANGED <<id_to_name_arg, flat, first_lines, first_total,
                   date_str, prefix, raised, result, fs>>

\* the same call again, on the snapshots as the first call left them
Rebuild ==
    /\ pc = "built"
    /\ \E r \in {build_daily_unique_hotspots(today_data, yesterday_data, max_items)} :
        /\ lines' = r.lines
        /\ total_candidates' = r.total_candidates
        /\ candidates' = r.unique
        /\ today_data' = r.today
        /\ yesterday_data' = r.yesterday
    /\ first_lines' = lines
    /\ first_total' = total_candidates
    /\ pc' = "rebuilt"
    /\ UNCHANGED <<id_to_name_arg, flat, max_items, date_str, prefix, raised, result, fs>>

Next ==
    \/ \E k \in MaxItemsRange : Build(k)
    \/ Rebuild

Spec == Init /\ [][Next]_vars

-----------------------------------------------------------------------------
\* _flatten_news called on its own, on snapshots whose ranks reach the sentinel.

\* titles "a", "A " without URL
PlainStories == {<<<<97>>, <<>>>>, <<<<65, 32>>, <<>>>>}
WideRanks == {0, 1, 999, 1000}

SortSnapshots ==
    {[items |-> d, id_to_name |-> Names] :
        d \in ItemDicts(Sources, PlainStories, WideRanks, MaxToday)}

InitSort ==
    /\ pc = "start"
    /\ today_data \in SortSnapshots
    /\ yesterday_data = <<>>
    /\ id_to_name_arg = today_data.id_to_name
    /\ date_str = <<>>
    /\ prefix = <<>>
    /\ NoCall

\* one direct call _flatten_news(today_data, id_to_name_arg)
Flatten ==
    /\ pc = "start"
    /\ \E r \in {_flatten_news(today_data, id_to_name_arg)} :
        /\ flat' = r.items
        /\ today_data' = r.data
    /\ pc' = "flattened"
    /\ UNCHANGED <<yesterday_data, id_to_name_arg, max_items, candidates, lines,
                   total_candidates, first_lines, first_total,
                   date_str, prefix, raised, result, fs>>

NextSort == Flatten

SpecSort == InitSort /\ [][NextSort]_vars

-----------------------------------------------------------------------------
\* Name resolution: platforms "" and "a", every combination of missing, empty
\* and non-empty display names in the override dict and in the snapshot's own.

\* platform ids "", "a"
NameSources == <<<<>>, <<97>>>>
\* values "", "O" of the override dict
OverrideDicts == Dicts({<<>>, <<97>>}, {<<>>, <<79>>})
\* values "", "N" of NewsData.id_to_name
OwnDicts == Dicts({<<>>, <<97>>}, {<<>>, <<78>>})

NameSnapshots ==
    {[items |-> d, id_to_name |-> own] :
        d \in ItemDicts(NameSources, {<<<<97>>, <<>>>>}, {1}, MaxToday),
        own \in OwnDicts}

InitNames ==
    /\ pc = "start"
    /\ today_data \in NameSnapshots
    /\ yesterday_data = <<>>
    /\ id_to_name_arg \in OverrideDicts
    /\ date_str = <<>>
    /\ prefix = <<>>
    /\ NoCall

NextNames ==
    \/ Flatten
    \/ \E k \in MaxItemsRange : Build(k)

SpecNames == InitNames /\ [][NextNames]_vars

-----------------------------------------------------------------------------
\* write_ai_hotspots_file and build_r2_key

\* variant of SplitDate: split without maxsplit
SplitDateAll(d) == Split(d, 45, Len(d))

\* lines 175 and 188: date_str.split("-", 2)
SplitDate(d) == Split(d, 45, 2)

\* `y, m, d = ...` raises ValueError unless there are exactly three parts
UnpackRaises(parts) == Len(parts) # 3

\* s.strip("/")
RECURSIVE StripSlashes(_)
StripSlashes(s) ==
    IF s # <<>> /\ Head(s) = 47 THEN StripSlashes(Tail(s))
    ELSE DropTrailingSlash(s)

\* build_r2_key(prefix, date_str, filename): [raised, value]
build_r2_key(pfx, d, filename) ==
    LET p == StripSlashes(Strip(pfx))
        parts == SplitDate(d)
    IN IF UnpackRaises(parts) THEN [raised |-> TRUE, value |-> <<>>]
       ELSE [raised |-> FALSE,
             value |-> Join(NonEmptyParts(<<p>> \o parts \o <<filename>>), <<47>>)]

\* write_ai_hotspots_file(local_base_dir, date_str, filename, content):
\* [raised, value, fs]; pathlib drops empty path components
write_ai_hotspots_file(files, local_base_dir, d, filename, content) ==
    LET parts == SplitDate(d) IN
    IF UnpackRaises(parts) THEN [raised |-> TRUE, value |-> <<>>, fs |-> files]
    ELSE LET out_path == Join(NonEmptyParts(<<local_base_dir>> \o parts \o <<filename>>),
                              <<47>>)
         IN [raised |-> FALSE, value |-> out_path,
             fs |-> [q \in DOMAIN files \cup {out_path} |->
                        IF q = out_path THEN content ELSE files[q]]]

\* date strings over "-" and "1"
DateStrings == SeqsUpTo({45, 49}, MaxDateLen)
\* prefixes "", "/p/"
Prefixes == {<<>>, <<47, 112, 47>>}
\* filename "f", local_base_dir "o", content "c"
FileName == <<102>>
LocalBaseDir == <<111>>
Content == <<99>>

InitPath ==
    /\ pc = "start"
    /\ today_data = [items |-> <<>>, id_to_name |-> NoDict]
    /\ yesterday_data = <<>>
    /\ id_to_name_arg = NoDict
    /\ date_str \in DateStrings
    /\ prefix \in Prefixes
    /\ NoCall

\* one call build_r2_key(prefix, date_str, filename)
BuildKey ==
    /\ pc = "start"
    /\ \E r \in {build_r2_key(prefix, date_str, FileName)} :
        /\ raised' = r.raised
        /\ result' = r.value
    /\ pc' = "keyed"
    /\ UNCHANGED <<today_data, yesterday_data, id_to_name_arg, max_items, flat,
                   candidates, lines, total_candidates, first_lines, first_total,
                   date_str, prefix, fs>>

\* one call write_ai_hotspots_file(local_base_dir, date_str, filename, content)
WriteFile ==
    /\ pc = "start"
    /\ \E r \in {write_ai_hotspots_file(fs, LocalBaseDir, date_str, FileName, Content)} :
        /\ raised' = r.raised
        /\ result' = r.value
        /\ fs' = r.fs
    /\ pc' = "written"
    /\ UNCHANGED <<today_data, yesterday_data, id_to_name_arg, max_items, flat,
                   candidates, lines, total_candidates, first_lines, first_total,
                   date_str, prefix>>

NextPath == BuildKey \/ WriteFile

SpecPath == InitPath /\ [][NextPath]_vars

-----------------------------------------------------------------------------
\* Properties of build_daily_unique_hotspots.

\* a build_daily_unique_hotspots call has returned
Returned == pc \in {"built", "rebuilt"}

\* the items of a snapshot, as a set
ItemsOf(data) ==
    UNION {{data.items[e].news_list[i] : i \in 1..Len(data.items[e].news_list)} :
            e \in 1..Len(data.items)}

\* the number of items of a snapshot
CountItems(data) == Len(Concat(data.items))

\* the identity keys of a snapshot
KeysOf(data) == {_item_identity(x) : x \in ItemsOf(data)}

\* the identity keys of yesterday's snapshot; none when it is None
YesterdayKeys == IF yesterday_data = <<>> THEN {} ELSE KeysOf(yesterday_data[1])

\* the first position in list s of an item with identity key k
FirstWithKey(s, k) ==
    CHOOSE i \in 1..Len(s) :
        /\ _item_identity(s[i]) = k
        /\ \A j \in 1..(i - 1) : _item_identity(s[j]) # k

\* C1: the idx values of the returned lines are 1, 2, ..., len(lines) in list
\* order, whatever was removed by dedup or truncation.
C1_IdxContiguous ==
    Returned => \A i \in 1..Len(lines) : lines[i].idx = i

\* C1 witness: lines were returned after items of today were removed
C1_Witness ==
    /\ pc = "built"
    /\ Len(lines) >= 1
    /\ Len(lines) < CountItems(today_data)

\* C2: with a yesterday snapshot, no returned line comes from a today item
\* whose identity key is the key of a yesterday item; in particular no today
\* item whose URL normalizes to the URL of a yesterday item is in the output.
C2_CrossDayExclusion ==
    (Returned /\ yesterday_data # <<>>) =>
        /\ \A i \in 1..Len(lines) : _item_identity(candidates[i]) \notin YesterdayKeys
        /\ \A t \in ItemsOf(today_data), y \in ItemsOf(yesterday_data[1]) :
              (/\ Strip(t.url) # <<>>
               /\ Strip(y.url) # <<>>
               /\ normalize_url(Strip(t.url), t.source_id)
                    = normalize_url(Strip(y.url), y.source_id))
              => \A i \in 1..Len(lines) : lines[i] # MakeLine(i, t)

\* C2 witness: a today item at " x" on platform "b" was dropped against
\* yesterday's "x?u" on platform "a", and another item was exported
C2_Witness ==
    /\ pc = "built"
    /\ yesterday_data # <<>>
    /\ \E t \in ItemsOf(today_data), y \in ItemsOf(yesterday_data[1]) :
          /\ t.url = <<32, 120>>
          /\ y.url = <<120, 63, 117>>
          /\ t.source_id # y.source_id
    /\ Len(lines) >= 1

\* C3: every identity key of today that is not a key of yesterday has exactly
\* one candidate, the first item with that key in the flattened order; there
\* is no other candidate. Without a yesterday snapshot every key of today has
\* its candidate.
C3_WithinDayDedup ==
    Returned =>
        \E today_items \in {_flatten_news(today_data, today_data.id_to_name).items} :
            /\ \A k \in KeysOf(today_data) \ YesterdayKeys :
                  /\ Cardinality({i \in 1..Len(candidates) :
                                    _item_identity(candidates[i]) = k}) = 1
                  /\ \E i \in 1..Len(candidates) :
                        candidates[i] = today_items[FirstWithKey(today_items, k)]
            /\ \A i \in 1..Len(candidates) :
                  _item_identity(candidates[i]) \in KeysOf(today_data) \ YesterdayKeys
            /\ yesterday_data = <<>> =>
                  Len(candidates) = Cardinality(KeysOf(today_data))

\* C3 witness: two items of today collide on the key of titles "A " and "a";
\* the one kept sorts first
C3_Witness ==
    /\ pc = "built"
    /\ yesterday_data = <<>>
    /\ CountItems(today_data) = 2
    /\ Len(candidates) = 1
    /\ \E t \in ItemsOf(today_data) :
          /\ clean_title(t.title) # clean_title(candidates[1].title)
          /\ t.url = <<>>

\* C4: for max_items = k > 0 the lines are the first min(k, total_candidates)
\* candidates in order; for max_items <= 0 they are all the candidates.
C4_Truncation ==
    Returned =>
        /\ max_items > 0 => Len(lines) = Min(max_items, total_candidates)
        /\ max_items <= 0 => Len(lines) = total_candidates
        /\ Len(lines) <= Len(candidates)
        /\ \A i \in 1..Len(lines) : lines[i] = MakeLine(i, candidates[i])

\* C4 witness: two candidates, max_items = 1, one line
C4_Witness ==
    /\ pc = "built"
    /\ max_items = 1
    /\ Len(candidates) = 2
    /\ Len(lines) = 1

C6_IdempotentRerun ==
    pc = "rebuilt" => (lines = first_lines /\ total_candidates = first_total)

\* C6 witness: a re-run that returned lines, with a yesterday snapshot
C6_Witness ==
    /\ pc = "rebuilt"
    /\ yesterday_data # <<>>
    /\ Len(lines) >= 1
    /\ \E i \in 1..Len(lines) : lines[i].platform_name # lines[i].platform_id

\* a snapshot with every source_name blanked
EraseNames(data) ==
    [data EXCEPT !.items =
        [e \in 1..Len(data.items) |->
            [data.items[e] EXCEPT !.news_list =
                [i \in 1..Len(data.items[e].news_list) |->
                    [data.items[e].news_list[i] EXCEPT !.source_name = <<>>]]]]]

\* Optional[NewsData] with every source_name blanked
EraseNamesOpt(opt) == IF opt = <<>> THEN <<>> ELSE <<EraseNames(opt[1])>>

\* C10: a call changes nothing in the today and yesterday snapshots but the
\* source_name of items: the lists keep their members and order, and
\* source_id, title, url, mobile_url and rank of every item stay as they were.
C10_OnlyNamesWritten ==
    [][/\ EraseNames(today_data') = EraseNames(today_data)
       /\ EraseNamesOpt(yesterday_data') = EraseNamesOpt(yesterday_data)]_vars

\* C10 witness: a call wrote names onto items of both snapshots
C10_Witness ==
    /\ pc = "built"
    /\ yesterday_data # <<>>
    /\ \E y \in ItemsOf(yesterday_data[1]) : y.source_name # <<>>
    /\ \E t \in ItemsOf(today_data) : t.source_name # <<>> /\ t.rank = 0

-----------------------------------------------------------------------------
\* Properties of _flatten_news.

\* C8: the flattened list ascends by (rank, source_id, cleaned title) with the
\* unranked items behind the ranked ones: no item of positive rank follows an
\* item of rank 0, ranked items ascend by their key, and so do unranked ones.
C8_RankedBeforeUnranked ==
    pc = "flattened" =>
        \A i, j \in 1..Len(flat) :
            i < j =>
                /\ ~(flat[i].rank = 0 /\ flat[j].rank > 0)
                /\ (flat[i].rank > 0) = (flat[j].rank > 0) =>
                      ~KeyLess(<<flat[j].rank, flat[j].source_id, clean_title(flat[j].title)>>,
                               <<flat[i].rank, flat[i].source_id, clean_title(flat[i].title)>>)

\* the name line 59 resolves for a platform, case by case
ExpectedName(own, override, source_id) ==
    IF source_id \in DOMAIN override /\ override[source_id] # <<>>
    THEN override[source_id]
    ELSE IF source_id \in DOMAIN own /\ own[source_id] # <<>>
    THEN own[source_id]
    ELSE source_id

\* C9 as stated: every flattened item has a non-empty source_name, resolved
\* override first, then the snapshot's id_to_name, then the raw source_id;
\* every returned line has a non-empty platform_name.
C9_NameNeverEmpty ==
    /\ pc = "flattened" =>
          \A i \in 1..Len(flat) :
              /\ flat[i].source_name # <<>>
              /\ flat[i].source_name
                   = ExpectedName(today_data.id_to_name, id_to_name_arg, flat[i].source_id)
    /\ pc = "built" => \A i \in 1..Len(lines) : lines[i].platform_name # <<>>

\* C9 amended: the same for the items and lines whose platform id is not the
\* empty string, an empty dict entry counting as a missing one.
C9_NameNonEmptyForNonEmptyId ==
    /\ pc = "flattened" =>
          \A i \in 1..Len(flat) :
              /\ flat[i].source_name
                   = ExpectedName(today_data.id_to_name, id_to_name_arg, flat[i].source_id)
              /\ flat[i].source_id # <<>> => flat[i].source_name # <<>>
    /\ pc = "built" =>
          \A i \in 1..Len(lines) :
              lines[i].platform_id # <<>> => lines[i].platform_name # <<>>

\* C9 witness: platform "a" has an empty override entry and no entry of the
\* snapshot, and its item got the raw id as its name
C9_Witness ==
    /\ pc = "flattened"
    /\ <<97>> \in DOMAIN id_to_name_arg
    /\ id_to_name_arg[<<97>>] = <<>>
    /\ <<97>> \notin DOMAIN today_data.id_to_name
    /\ \E i \in 1..Len(flat) : flat[i].source_id = <<97>> /\ flat[i].source_name = <<97>>

-----------------------------------------------------------------------------
\* Properties of write_ai_hotspots_file and build_r2_key.

\* the number of "-" in s; s has one more dash-separated component
DashCount(s) == Cardinality({i \in 1..Len(s) : s[i] = 45})

\* a path/key builder call has returned or raised
BuilderDone == pc \in {"keyed", "written"}

====
